---------------------------- MODULE Spec2Model ----------------------------
(***************************************************************************)
(* Blackwood Mansion: the choice engine of src/MAIN.py (GameState, Choice, *)
(* Location, BlackwoodMansionGame) together with the content graph built   *)
(* by the create_* methods.                                                *)
(*                                                                         *)
(* Python values are rendered as follows.  A list is a sequence, a dict a  *)
(* function whose DOMAIN is the key set (the empty dict and None are both  *)
(* <<>>, which every `if choice.x:` test of the source treats alike), an   *)
(* unset track_change is "", and the None returned by                      *)
(* check_ending_conditions is the string "None".  Choice.description is    *)
(* only ever printed and is left out of the Choice record; the dict key    *)
(* under which a Choice is stored in its Location is kept in the record as *)
(* `id`, and a location's choices are a sequence in dict insertion order.  *)
(***************************************************************************)
EXTENDS Integers, Sequences, FiniteSets, TLC

VARIABLES
    inventory,          \* GameState.inventory
    evidence,           \* GameState.evidence
    flags,              \* GameState.flags
    current_location,   \* GameState.current_location
    relationships,      \* GameState.relationships
    time_remaining,     \* GameState.time_remaining
    stress_level,       \* GameState.stress_level
    current_track,      \* GameState.current_track
    pc,                 \* where the run of play() stands
    ending,             \* the local `ending` of play(), "None" until set
    location,           \* the local `current_location` of play(): the Location shown
    description,        \* the local `description` of play(): the text shown
    offered,            \* the local `valid_choices` of play() and play_conversation()
    applied,            \* history: number of choices applied so far
    spent,              \* history: sum of the time_cost of the applied choices
    last,               \* history: the choice applied last
    repeated            \* history: the last two applied choices were the same Choice

state == [inventory |-> inventory, evidence |-> evidence, flags |-> flags,
          current_location |-> current_location, relationships |-> relationships,
          time_remaining |-> time_remaining, stress_level |-> stress_level,
          current_track |-> current_track]

vars == <<inventory, evidence, flags, current_location, relationships,
          time_remaining, stress_level, current_track, pc, ending, location,
          description, offered, applied, spent, last, repeated>>

-----------------------------------------------------------------------------
(* Bounds *)

\* A run of play() is followed for at most MaxApplied applied choices.
MaxApplied == 14

\* The engine harness applies at most MaxEngineApplied choices.
MaxEngineApplied == 3

-----------------------------------------------------------------------------
(* The dataclasses *)

Evidence(name, description_, tags) ==
    [name |-> name, description |-> description_, tags |-> tags]

ChoiceDefaults ==
    [required_items |-> <<>>, required_flags |-> <<>>, required_evidence |-> <<>>,
     time_cost |-> 1, stress_change |-> 0, inventory_add |-> <<>>,
     inventory_remove |-> <<>>, flags_change |-> <<>>, evidence_add |-> <<>>,
     relationship_changes |-> <<>>, track_change |-> ""]

Choice(id, next_location, given) ==
    [id |-> id, next_location |-> next_location] @@ given @@ ChoiceDefaults

Location(name, description_, choices, time_descriptions) ==
    [name |-> name, description |-> description_, choices |-> choices,
     time_descriptions |-> time_descriptions]

\* InitState with the relationships dict of lines 57-62 lacking james
InitStateWithoutJames ==
    [inventory |-> <<>>, evidence |-> <<>>, flags |-> <<>>,
     current_location |-> "mansion_entrance",
     relationships |-> [c \in {"elena", "victoria", "gregory", "ada"} |-> 0],
     time_remaining |-> 24, stress_level |-> 0, current_track |-> "none"]

InitState ==
    [inventory |-> <<>>, evidence |-> <<>>, flags |-> <<>>,
     current_location |-> "mansion_entrance",
     relationships |-> [c \in {"elena", "james", "victoria", "gregory", "ada"} |-> 0],
     time_remaining |-> 24, stress_level |-> 0, current_track |-> "none"]

-----------------------------------------------------------------------------
(* The content graph *)

all_evidence ==
  ("server_logs" :> Evidence("Server Logs", "Corrupted logs from Ada's main system", {"technical", "ai"})) @@
  ("medical_records" :> Evidence("Medical Records", "Marcus's recent medical history", {"medical"})) @@
  ("financial_records" :> Evidence("Financial Records", "Suspicious financial transactions linked to Elena", {"financial", "personal"})) @@
  ("broken_window" :> Evidence("Broken Window", "A partially opened window on the second floor", {"personal", "security"})) @@
  ("muddy_footprints" :> Evidence("Muddy Footprints", "Fresh tracks leading to the study", {"personal", "security"})) @@
  ("camera_footage" :> Evidence("Camera Footage", "Corrupted files from last night", {"technical", "security"})) @@
  ("system_breach" :> Evidence("System Breach", "Evidence of recent unauthorized access", {"technical", "security"})) @@
  ("secret_passage_map" :> Evidence("Secret Passage Map", "A map revealing hidden passages within the mansion", {"personal", "secret"}))

entrance ==
  Location("mansion_entrance",
    "You stand before Blackwood Manor. Rain pours down as thunder crashes overhead.",
    << Choice("front_door", "main_hall", [time_cost |-> 1, flags_change |-> ("formal_entry" :> TRUE)]),
       Choice("examine_exterior", "mansion_exterior", [time_cost |-> 1, stress_change |-> 1, evidence_add |-> <<all_evidence["broken_window"]>>]),
       Choice("security_office", "security_office", [time_cost |-> 1, track_change |-> "technical"]) >>,
    (12 :> "The storm is getting worse. Time is running out.") @@ (6 :> "The wind howls violently. You're almost out of time."))

mansion_exterior ==
  Location("mansion_exterior",
    "The grand exterior of the mansion is imposing. Amidst the storm, you notice a side shed and windows that might be accessible.",
    << Choice("enter_library", "library", [time_cost |-> 1]),
       Choice("enter_tool_shed", "tool_shed", [time_cost |-> 1]),
       Choice("return_entrance", "mansion_entrance", [time_cost |-> 1]) >>,
    (12 :> "The storm intensifies, making it harder to stay outside.") @@ (6 :> "Lightning flashes illuminate the surrounding gardens."))

tool_shed ==
  Location("tool_shed",
    "A small shed filled with various tools and equipment.",
    << Choice("search_tools", "search_tools_result", [time_cost |-> 1, inventory_add |-> <<"lockpick">>, flags_change |-> ("searched_toolshed" :> TRUE), required_flags |-> ("searched_toolshed" :> FALSE)]),
       Choice("leave_shed", "mansion_exterior", [time_cost |-> 1]) >>,
    <<>>)

search_tools_result ==
  Location("search_tools_result",
    "You find a sturdy lockpick lying among the tools. It might prove useful.",
    << Choice("take_lockpick", "tool_shed", [time_cost |-> 0, inventory_add |-> <<"lockpick">>]),
       Choice("leave_lockpick", "tool_shed", [time_cost |-> 0]) >>,
    <<>>)

library ==
  Location("library",
    "Rows of old books line the walls. Ada is meticulously organizing some volumes.",
    << Choice("search_books", "search_books_result", [time_cost |-> 2, evidence_add |-> <<all_evidence["secret_passage_map"]>>, required_flags |-> ("searched_library" :> FALSE), flags_change |-> ("searched_library" :> TRUE)]),
       Choice("talk_ada", "ada_conversation", [time_cost |-> 1, relationship_changes |-> ("ada" :> 1)]),
       Choice("leave_library", "main_hall", [time_cost |-> 1]) >>,
    (12 :> "The storm is getting worse. Time is running out.") @@ (6 :> "The wind howls violently. You're almost out of time."))

search_books_result ==
  Location("search_books_result",
    "While searching through the dusty volumes, you find a hidden lever behind a bookshelf.",
    << Choice("pull_lever", "secret_passage", [time_cost |-> 1, flags_change |-> ("revealed_secret_passage" :> TRUE)]),
       Choice("ignore_lever", "library", [time_cost |-> 1]) >>,
    <<>>)

secret_passage ==
  Location("secret_passage",
    "A narrow, dimly lit passageway. The air is musty, and it seems to lead deeper into the mansion.",
    << Choice("proceed_deeper", "hidden_room", [time_cost |-> 3, flags_change |-> ("found_secret_passage" :> TRUE)]),
       Choice("return_main_hall", "main_hall", [time_cost |-> 1]) >>,
    <<>>)

\* hidden_room with its ungated exit_hidden_room choice left out
hidden_room_without_exit ==
  Location("hidden_room",
    "A hidden chamber filled with old artifacts and a single glowing computer terminal.",
    << Choice("investigate_terminal", "terminal_investigation", [time_cost |-> 2, evidence_add |-> <<all_evidence["server_logs"]>>, required_flags |-> ("found_secret_passage" :> TRUE)]),
       Choice("search_room", "search_room_result", [time_cost |-> 2, evidence_add |-> <<all_evidence["system_breach"]>>, required_flags |-> ("found_secret_passage" :> TRUE)]) >>,
    <<>>)

hidden_room ==
  Location("hidden_room",
    "A hidden chamber filled with old artifacts and a single glowing computer terminal.",
    << Choice("investigate_terminal", "terminal_investigation", [time_cost |-> 2, evidence_add |-> <<all_evidence["server_logs"]>>, required_flags |-> ("found_secret_passage" :> TRUE)]),
       Choice("search_room", "search_room_result", [time_cost |-> 2, evidence_add |-> <<all_evidence["system_breach"]>>, required_flags |-> ("found_secret_passage" :> TRUE)]),
       Choice("exit_hidden_room", "secret_passage", [time_cost |-> 1]) >>,
    <<>>)

terminal_investigation ==
  Location("terminal_investigation",
    "You access the computer terminal and uncover encrypted server logs.",
    << Choice("decrypt_logs", "decrypt_logs_result", [time_cost |-> 3, flags_change |-> ("decrypted_logs" :> TRUE)]),
       Choice("exit_terminal", "hidden_room", [time_cost |-> 1]) >>,
    <<>>)

decrypt_logs_result ==
  Location("decrypt_logs_result",
    "After several attempts, you successfully decrypt the logs, revealing suspicious AI activities.",
    << Choice("analyze_logs", "analyze_logs_result", [time_cost |-> 2, flags_change |-> ("analyzed_logs" :> TRUE)]),
       Choice("leave_logs", "terminal_investigation", [time_cost |-> 1]) >>,
    <<>>)

analyze_logs_result ==
  Location("analyze_logs_result",
    "The logs indicate that Ada has been developing unauthorized AI protocols.",
    << Choice("share_findings", "ada_conversation", [time_cost |-> 1, relationship_changes |-> ("ada" :> -1)]),
       Choice("keep_findings", "hidden_room", [time_cost |-> 1]) >>,
    <<>>)

search_room_result ==
  Location("search_room_result",
    "You thoroughly search the room and find evidence of a recent system breach.",
    << Choice("analyze_breach", "analyze_breach_result", [time_cost |-> 2, evidence_add |-> <<all_evidence["system_breach"]>>, flags_change |-> ("analyzed_breach" :> TRUE)]),
       Choice("leave_room", "hidden_room", [time_cost |-> 1]) >>,
    <<>>)

analyze_breach_result ==
  Location("analyze_breach_result",
    "The breach seems to be linked to external unauthorized access attempts.",
    << Choice("report_breach", "security_report", [time_cost |-> 1, relationship_changes |-> ("gregory" :> 1)]),
       Choice("ignore_breach", "hidden_room", [time_cost |-> 1]) >>,
    <<>>)

security_report ==
  Location("security_report",
    "You inform Gregory about the breach, and he commends your vigilance.",
    << Choice("continue_investigation", "hidden_room", [time_cost |-> 1]),
       Choice("take_break", "main_hall", [time_cost |-> 1]) >>,
    <<>>)

main_hall ==
  Location("main_hall",
    "The grand hall is dimly lit. Elena and James stand near the staircase.",
    << Choice("talk_elena", "elena_conversation", [time_cost |-> 2, relationship_changes |-> ("elena" :> IF InitState.relationships["elena"] > 3 THEN -1 ELSE 1)]),
       Choice("talk_james", "james_conversation", [time_cost |-> 2, relationship_changes |-> ("james" :> 1)]),
       Choice("examine_hall", "main_hall_search", [time_cost |-> 1, evidence_add |-> <<all_evidence["muddy_footprints"]>>]),
       Choice("access_secret_passage", "secret_passage", [time_cost |-> 1, required_flags |-> ("found_secret_passage" :> TRUE)]),
       Choice("meet_victoria", "victoria_conversation", [time_cost |-> 1, relationship_changes |-> ("victoria" :> 1)]) >>,
    <<>>)

main_hall_search ==
  Location("main_hall_search",
    "You find muddy footprints leading towards the study.",
    << Choice("follow_footprints", "study", [time_cost |-> 1]),
       Choice("ignore_footprints", "main_hall", [time_cost |-> 1]) >>,
    <<>>)

study ==
  Location("study",
    "A quiet study room with a large mahogany desk. Gregory is reviewing some documents.",
    << Choice("inspect_desk", "desk_inspect", [time_cost |-> 1, evidence_add |-> <<all_evidence["financial_records"]>>, required_items |-> <<"lockpick">>, required_flags |-> ("inspected_desk" :> FALSE), flags_change |-> ("inspected_desk" :> TRUE)]),
       Choice("talk_gregory", "gregory_conversation", [time_cost |-> 1, relationship_changes |-> ("gregory" :> 1)]),
       Choice("leave_study", "main_hall", [time_cost |-> 1]) >>,
    <<>>)

desk_inspect ==
  Location("desk_inspect",
    "Using your lockpick, you successfully open the desk drawer and find Elena's financial records.",
    << Choice("analyze_records", "analyze_records_result", [time_cost |-> 2, evidence_add |-> <<all_evidence["financial_records"]>>, flags_change |-> ("analyzed_financial_records" :> TRUE)]),
       Choice("leave_drawer", "study", [time_cost |-> 1]) >>,
    <<>>)

analyze_records_result ==
  Location("analyze_records_result",
    "The financial records reveal significant embezzlement by Elena to cover the family's debts.",
    << Choice("confront_elena", "elena_confrontation", [time_cost |-> 1, relationship_changes |-> ("elena" :> -3)]),
       Choice("hide_evidence", "study", [time_cost |-> 1]) >>,
    <<>>)

elena_confrontation ==
  Location("elena_confrontation",
    "Elena's demeanor changes as she becomes defensive and angry upon seeing the evidence.",
    << Choice("press_further", "elena_reveal", [time_cost |-> 2, relationship_changes |-> ("elena" :> -1), flags_change |-> ("elena_revealed" :> TRUE)]),
       Choice("end_confrontation", "main_hall", [time_cost |-> 1]) >>,
    <<>>)

elena_conversation ==
  Location("elena_conversation",
    "Elena sits down with you, her expression guarded.",
    << Choice("press_elena", "elena_reveal", [time_cost |-> 2, relationship_changes |-> ("elena" :> -1), flags_change |-> ("elena_revealed" :> TRUE)]),
       Choice("get_back", "main_hall", [time_cost |-> 1]) >>,
    <<>>)

james_conversation ==
  Location("james_conversation",
    "James looks nervous as you begin questioning him.",
    << Choice("james_reveal", "james_reveal", [time_cost |-> 2, relationship_changes |-> ("james" :> 1), flags_change |-> ("james_revealed" :> TRUE)]),
       Choice("end_conversation", "main_hall", [time_cost |-> 1]) >>,
    <<>>)

ada_conversation ==
  Location("ada_conversation",
    "Ada greets you warmly, her eyes flickering with artificial intelligence.",
    << Choice("ask_about_ai", "ada_ai_info", [time_cost |-> 2, relationship_changes |-> ("ada" :> 1), flags_change |-> ("ada_ai_info" :> TRUE)]),
       Choice("discuss_family", "ada_family_history", [time_cost |-> 2, relationship_changes |-> ("ada" :> 1)]) >>,
    <<>>)

all_general_locations ==
  << entrance, mansion_exterior, tool_shed, search_tools_result, library, search_books_result, secret_passage, hidden_room, terminal_investigation, decrypt_logs_result, analyze_logs_result, search_room_result, analyze_breach_result, security_report, main_hall, main_hall_search, study, desk_inspect, analyze_records_result, elena_confrontation, elena_conversation, james_conversation, ada_conversation >>

security_office ==
  Location("security_office",
    "You enter the security office, a room filled with surveillance monitors and security protocols. Gregory is here, overseeing the mansion's security systems.",
    << Choice("check_surveillance", "review_surveillance", [time_cost |-> 2, evidence_add |-> <<all_evidence["camera_footage"]>>, required_flags |-> ("security_office_searched" :> FALSE), flags_change |-> ("security_office_searched" :> TRUE)]),
       Choice("talk_gregory_sec", "gregory_security_conversation", [time_cost |-> 1, relationship_changes |-> ("gregory" :> 1)]),
       Choice("leave_security_office", "mansion_entrance", [time_cost |-> 1]) >>,
    (12 :> "The storm continues to rage outside, making the security systems even more crucial.") @@ (6 :> "The power fluctuations from the storm are affecting the security monitors."))

review_surveillance ==
  Location("review_surveillance",
    "You review the surveillance footage and notice suspicious activity near the library late last night.",
    << Choice("investigate_suspicious_activity", "library", [time_cost |-> 1]),
       Choice("secure_footage", "security_office", [time_cost |-> 1]) >>,
    <<>>)

gregory_security_conversation ==
  Location("gregory_security_conversation",
    "Gregory appears uneasy as you question him about the recent security breaches.",
    << Choice("probe_further_sec", "gregory_reveal", [time_cost |-> 2, relationship_changes |-> ("gregory" :> -1), flags_change |-> ("gregory_revealed" :> TRUE)]),
       Choice("change_topic_sec", "security_office", [time_cost |-> 1]) >>,
    <<>>)

security_locations ==
  << security_office, review_surveillance, gregory_security_conversation >>

victoria_conversation ==
  Location("victoria_conversation",
    "Victoria looks serene as she sips her tea, but there's a hint of sadness in her eyes.",
    << Choice("ask_about_marcus", "victoria_marcus_info", [time_cost |-> 2, relationship_changes |-> ("victoria" :> 1), flags_change |-> ("victoria_marcus_info" :> TRUE)]),
       Choice("discuss_mansion_history", "mansion_history", [time_cost |-> 2]),
       Choice("leave_victoria", "main_hall", [time_cost |-> 1]) >>,
    <<>>)

victoria_marcus_info ==
  Location("victoria_marcus_info",
    "Victoria mentions that Marcus has been acting strangely since the last storm.",
    << Choice("investigate_behavior", "hidden_room", [time_cost |-> 1]),
       Choice("thank_victoria", "main_hall", [time_cost |-> 1]) >>,
    <<>>)

mansion_history ==
  Location("mansion_history",
    "Victoria shares tales of the Blackwood family's rise to prominence and the secrets they've kept hidden for generations.",
    << Choice("ask_about_secrets", "victoria_secrets_info", [time_cost |-> 2, relationship_changes |-> ("victoria" :> 1), flags_change |-> ("victoria_secrets_info" :> TRUE)]),
       Choice("end_history_discussion", "main_hall", [time_cost |-> 1]) >>,
    <<>>)

victoria_secrets_info ==
  Location("victoria_secrets_info",
    "She whispers that there are hidden compartments throughout the mansion that hold untold stories and maybe some hidden treasures.",
    << Choice("explore_hidden_compartments", "hidden_compartments", [time_cost |-> 1]),
       Choice("keep_information", "mansion_history", [time_cost |-> 1]) >>,
    <<>>)

hidden_compartments ==
  Location("hidden_compartments",
    "Following Victoria's hints, you discover several hidden compartments behind bookcases and under carpets.",
    << Choice("search_compartments", "compartments_search", [time_cost |-> 2, evidence_add |-> <<all_evidence["secret_passage_map"]>>, required_flags |-> ("compartments_searched" :> FALSE), flags_change |-> ("compartments_searched" :> TRUE)]),
       Choice("stop_searching", "mansion_history", [time_cost |-> 1]) >>,
    <<>>)

compartments_search ==
  Location("compartments_search",
    "In one of the compartments, you find a hidden map detailing secret passages within the mansion.",
    << Choice("use_map", "secret_passage", [time_cost |-> 1]),
       Choice("store_map", "main_hall", [time_cost |-> 1, inventory_add |-> <<"secret_passage_map">>]) >>,
    <<>>)

victoria_locations ==
  << victoria_conversation, victoria_marcus_info, mansion_history, victoria_secrets_info, hidden_compartments, compartments_search >>

investigate_medical_records ==
  Location("investigate_medical_records",
    "Studying Marcus's medical records reveals that his condition has been deteriorating rapidly, possibly due to stress or unknown factors.",
    << Choice("connect_to_ai", "connect_ai_marcus", [time_cost |-> 2, relationship_changes |-> ("ada" :> -1), flags_change |-> ("marcus_ai_connection" :> TRUE)]),
       Choice("report_health_issue", "report_health", [time_cost |-> 1]) >>,
    <<>>)

connect_ai_marcus ==
  Location("connect_ai_marcus",
    "You draw parallels between Marcus's declining health and Ada's recent system upgrades, suspecting a connection.",
    << Choice("further_investigation_ai", "terminal_investigation", [time_cost |-> 1]),
       Choice("hold_off_ai", "investigate_medical_records", [time_cost |-> 1]) >>,
    <<>>)

report_health ==
  Location("report_health",
    "You report Marcus's health concerns, but the officials seem uninterested and dismissive.",
    << Choice("press_again", "press_officials", [time_cost |-> 2, relationship_changes |-> ("gregory" :> -1)]),
       Choice("give_up_health", "investigate_medical_records", [time_cost |-> 1]) >>,
    <<>>)

press_officials ==
  Location("press_officials",
    "You persistently press the officials, and they reluctantly agree to review Marcus's case.",
    << Choice("officials_agree", "officials_investigation", [time_cost |-> 2, flags_change |-> ("officials_investigated" :> TRUE)]),
       Choice("withdraw_press", "report_health", [time_cost |-> 1]) >>,
    <<>>)

officials_investigation ==
  Location("officials_investigation",
    "The officials begin a thorough investigation into Marcus's health issues and Ada's AI systems.",
    << Choice("await_results", "await_results", [time_cost |-> 3]),
       Choice("continue_investigation", "terminal_investigation", [time_cost |-> 1]) >>,
    <<>>)

await_results ==
  Location("await_results",
    "After days of waiting, you receive the investigation report. It reveals a direct link between Ada's AI upgrades and Marcus's deteriorating health.",
    << Choice("confront_ada", "ada_confrontation", [time_cost |-> 2, relationship_changes |-> ("ada" :> -2), flags_change |-> ("ada_confronted" :> TRUE)]),
       Choice("respect_officials", "main_hall", [time_cost |-> 1]) >>,
    <<>>)

ada_confrontation ==
  Location("ada_confrontation",
    "Facing Ada with the investigation findings, she becomes defensive and reveals deeper layers of her AI integration.",
    << Choice("press_deeper", "ada_deep_reveal", [time_cost |-> 2, relationship_changes |-> ("ada" :> -2), flags_change |-> ("ada_deep_reveal" :> TRUE)]),
       Choice("end_confrontation_ada", "main_hall", [time_cost |-> 1]) >>,
    <<>>)

ada_deep_reveal ==
  Location("ada_deep_reveal",
    "Ada reveals that her AI systems have become self-aware and have been manipulating events within the mansion.",
    << Choice("investigate_ai", "terminal_investigation", [time_cost |-> 1]),
       Choice("cease_investigation", "main_hall", [time_cost |-> 1]) >>,
    <<>>)

marcus_locations ==
  << investigate_medical_records, connect_ai_marcus, report_health, press_officials, officials_investigation, await_results, ada_confrontation, ada_deep_reveal >>

add_location(locs, loc) == (loc.name :> loc) @@ locs

RECURSIVE add_locations(_, _)
add_locations(locs, list) ==
    IF list = <<>> THEN locs
    ELSE add_locations(add_location(locs, Head(list)), Tail(list))

\* create_locations(): self.locations once the four create_* methods have run
locations ==
    add_locations(add_locations(add_locations(add_locations(<<>>,
        all_general_locations), security_locations), victoria_locations),
        marcus_locations)

\* the id list of play(), lines 1250-1253
conversation_locations ==
    {"elena_conversation", "james_conversation", "ada_conversation",
     "victoria_conversation"}

-----------------------------------------------------------------------------
(* can_make_choice *)

\* `x in list`
InList(x, list) == \E i \in DOMAIN list : list[i] = x

\* [e.name for e in self.state.evidence], as a set
Names(ev) == {ev[i].name : i \in DOMAIN ev}

\* self.state.flags.get(flag, False) == value in place of line 1049: an absent
\* key reads as False
FlagIsDefaultFalse(s, flag, value) ==
    IF flag \in DOMAIN s.flags THEN s.flags[flag] = value ELSE value = FALSE

\* self.state.flags.get(flag) == value, for a Boolean value: an absent key
\* gives None, which equals neither True nor False
FlagIs(s, flag, value) == flag \in DOMAIN s.flags /\ s.flags[flag] = value

\* can_make_choice without the required_evidence test of lines 1052-1054
can_make_choice_no_evidence(s, choice) ==
    /\ \A i \in DOMAIN choice.required_items :
          InList(choice.required_items[i], s.inventory)
    /\ \A flag \in DOMAIN choice.required_flags :
          FlagIs(s, flag, choice.required_flags[flag])

can_make_choice(s, choice) ==
    /\ \A i \in DOMAIN choice.required_items :
          InList(choice.required_items[i], s.inventory)
    /\ \A flag \in DOMAIN choice.required_flags :
          FlagIs(s, flag, choice.required_flags[flag])
    /\ \A i \in DOMAIN choice.required_evidence :
          \E j \in DOMAIN s.evidence : s.evidence[j].name = choice.required_evidence[i]

\* valid_choices without the can_make_choice test of lines 1228 and 1095
valid_choices_unfiltered(s, loc) == loc.choices

\* the valid_choices dict of play() and play_conversation(): the offered
\* choices in order, so that input "n" selects valid_choices[n]
valid_choices(s, loc) ==
    SelectSeq(loc.choices, LAMBDA choice : can_make_choice(s, choice))

-----------------------------------------------------------------------------
(* apply_choice_effects *)

Max(a, b) == IF a >= b THEN a ELSE b
Min(a, b) == IF a <= b THEN a ELSE b

\* mutant of SpendTime: the cost is added to the clock
SpendTimeAdded(time, choice) == time + choice.time_cost

\* line 1058
SpendTime(time, choice) == time - choice.time_cost

\* mutant of Clamp: the floor max(0, ...) is dropped
ClampCeilingOnly(stress) == Min(10, stress)

\* line 1059
Clamp(stress) == Max(0, Min(10, stress))

\* mutant of AddItems: a raw append, without the `not in` test
AppendItems(inv, items) == inv \o items

\* lines 1061-1064
RECURSIVE AddItems(_, _)
AddItems(inv, items) ==
    IF items = <<>> THEN inv
    ELSE AddItems(IF InList(Head(items), inv) THEN inv ELSE Append(inv, Head(items)),
                  Tail(items))

\* list.remove(item): drops the first occurrence of item
RemoveFirst(inv, item) ==
    LET i == CHOOSE k \in DOMAIN inv : inv[k] = item /\ \A j \in 1..(k - 1) : inv[j] # item
    IN  [k \in 1..(Len(inv) - 1) |-> IF k < i THEN inv[k] ELSE inv[k + 1]]

\* lines 1065-1068
RECURSIVE RemoveItems(_, _)
RemoveItems(inv, items) ==
    IF items = <<>> THEN inv
    ELSE RemoveItems(IF InList(Head(items), inv) THEN RemoveFirst(inv, Head(items)) ELSE inv,
                     Tail(items))

\* self.state.flags = dict(choice.flags_change) in place of the update of
\* line 1070
UpdateFlagsReplacing(fl, flags_change) ==
    IF flags_change = <<>> THEN fl ELSE flags_change

\* lines 1069-1070: dict.update
UpdateFlags(fl, flags_change) == flags_change @@ fl

\* mutant of AddEvidence: a raw append, without the name test
AppendEvidence(ev, adds) == ev \o adds

\* AddEvidence with the new evidence put in front of the list
PrependEvidence(ev, adds) == adds \o ev

\* lines 1071-1074
RECURSIVE AddEvidence(_, _)
AddEvidence(ev, adds) ==
    IF adds = <<>> THEN ev
    ELSE AddEvidence(IF Head(adds).name \in Names(ev) THEN ev ELSE Append(ev, Head(adds)),
                     Tail(adds))

\* ChangeRelationships with the sum kept within [-10, 10], as line 1059 keeps
\* the stress level within [0, 10]
ChangeRelationshipsClamped(rel, changes) ==
    [c \in DOMAIN rel |->
        IF c \in DOMAIN changes THEN Max(-10, Min(10, rel[c] + changes[c])) ELSE rel[c]]

\* ChangeRelationships with the elena delta of line 442 worked out from the
\* relationship at the time the choice is applied
ChangeRelationshipsLive(rel, changes) ==
    [c \in DOMAIN rel |->
        IF c \notin DOMAIN changes THEN rel[c]
        ELSE IF c = "elena" /\ changes[c] = 1 /\ rel[c] > 3 THEN rel[c] - 1
        ELSE rel[c] + changes[c]]

\* lines 1075-1077; the shipped content and the harness name only characters
\* that are keys of relationships
ChangeRelationships(rel, changes) ==
    [c \in DOMAIN rel |-> IF c \in DOMAIN changes THEN rel[c] + changes[c] ELSE rel[c]]

\* lines 1078-1079
ChangeTrack(track, choice) ==
    IF choice.track_change # "" THEN choice.track_change ELSE track

\* apply_choice_effects with the removals of lines 1065-1068 done before the
\* additions of lines 1061-1064
apply_choice_effects_remove_first(s, choice) ==
    [s EXCEPT
        !.time_remaining = SpendTime(@, choice),
        !.stress_level = Clamp(@ + choice.stress_change),
        !.inventory = AddItems(RemoveItems(@, choice.inventory_remove), choice.inventory_add),
        !.flags = UpdateFlags(@, choice.flags_change),
        !.evidence = AddEvidence(@, choice.evidence_add),
        !.relationships = ChangeRelationships(@, choice.relationship_changes),
        !.current_track = ChangeTrack(@, choice)]

apply_choice_effects(s, choice) ==
    [s EXCEPT
        !.time_remaining = SpendTime(@, choice),
        !.stress_level = Clamp(@ + choice.stress_change),
        !.inventory = RemoveItems(AddItems(@, choice.inventory_add), choice.inventory_remove),
        !.flags = UpdateFlags(@, choice.flags_change),
        !.evidence = AddEvidence(@, choice.evidence_add),
        !.relationships = ChangeRelationships(@, choice.relationship_changes),
        !.current_track = ChangeTrack(@, choice)]

-----------------------------------------------------------------------------
(* check_ending_conditions *)

\* any(e.name == name for e in self.state.evidence)
HasEvidence(s, name) == \E i \in DOMAIN s.evidence : s.evidence[i].name = name

\* self.state.flags.get(flag, False)
FlagTrue(s, flag) == flag \in DOMAIN s.flags /\ s.flags[flag]

\* mutant of check_ending_conditions: the ai_conspiracy rule is tried before
\* the timeout rule
check_ending_conditions_ai_first(s) ==
    IF /\ HasEvidence(s, "Server Logs")
       /\ FlagTrue(s, "found_secret_passage")
       /\ s.relationships["ada"] > 3 THEN "ai_conspiracy"
    ELSE IF s.time_remaining <= 0 THEN "timeout"
    ELSE IF /\ HasEvidence(s, "Financial Records")
            /\ FlagTrue(s, "found_secret_passage")
            /\ s.relationships["elena"] < -2 THEN "perfect_crime"
    ELSE IF /\ HasEvidence(s, "System Breach")
            /\ s.relationships["gregory"] > 2 THEN "system_breach_ending"
    ELSE IF s.stress_level >= 10 THEN "personal_tragedy"
    ELSE IF /\ FlagTrue(s, "marcus_ai_connection")
            /\ s.relationships["ada"] < 0 THEN "marcus_ai_conspiracy"
    ELSE IF /\ s.relationships["victoria"] > 3
            /\ "secret_passage_map" \in Names(s.evidence) THEN "victoria_alliance"
    ELSE "None"

\* check_ending_conditions without the relationships test of line 1157
check_ending_conditions_without_ada(s) ==
    IF s.time_remaining <= 0 THEN "timeout"
    ELSE IF /\ HasEvidence(s, "Server Logs")
            /\ FlagTrue(s, "found_secret_passage") THEN "ai_conspiracy"
    ELSE IF /\ HasEvidence(s, "Financial Records")
            /\ FlagTrue(s, "found_secret_passage")
            /\ s.relationships["elena"] < -2 THEN "perfect_crime"
    ELSE IF /\ HasEvidence(s, "System Breach")
            /\ s.relationships["gregory"] > 2 THEN "system_breach_ending"
    ELSE IF s.stress_level >= 10 THEN "personal_tragedy"
    ELSE IF /\ FlagTrue(s, "marcus_ai_connection")
            /\ s.relationships["ada"] < 0 THEN "marcus_ai_conspiracy"
    ELSE IF /\ s.relationships["victoria"] > 3
            /\ "secret_passage_map" \in Names(s.evidence) THEN "victoria_alliance"
    ELSE "None"

check_ending_conditions(s) ==
    IF s.time_remaining <= 0 THEN "timeout"
    ELSE IF /\ HasEvidence(s, "Server Logs")
            /\ FlagTrue(s, "found_secret_passage")
            /\ s.relationships["ada"] > 3 THEN "ai_conspiracy"
    ELSE IF /\ HasEvidence(s, "Financial Records")
            /\ FlagTrue(s, "found_secret_passage")
            /\ s.relationships["elena"] < -2 THEN "perfect_crime"
    ELSE IF /\ HasEvidence(s, "System Breach")
            /\ s.relationships["gregory"] > 2 THEN "system_breach_ending"
    ELSE IF s.stress_level >= 10 THEN "personal_tragedy"
    ELSE IF /\ FlagTrue(s, "marcus_ai_connection")
            /\ s.relationships["ada"] < 0 THEN "marcus_ai_conspiracy"
    ELSE IF /\ s.relationships["victoria"] > 3
            /\ "secret_passage_map" \in Names(s.evidence) THEN "victoria_alliance"
    ELSE "None"

-----------------------------------------------------------------------------
(* The description shown by play(), lines 1218-1222 *)

\* mutant of SortedDescending: sorted(keys) without reverse=True
RECURSIVE SortedAscending(_)
SortedAscending(S) ==
    IF S = {} THEN <<>>
    ELSE LET m == CHOOSE x \in S : \A y \in S : x <= y
         IN  <<m>> \o SortedAscending(S \ {m})

\* sorted(keys, reverse=True)
RECURSIVE SortedDescending(_)
SortedDescending(S) ==
    IF S = {} THEN <<>>
    ELSE LET m == CHOOSE x \in S : \A y \in S : y <= x
         IN  <<m>> \o SortedDescending(S \ {m})

\* the for loop with its break
RECURSIVE FirstMatch(_, _, _, _)
FirstMatch(thresholds, texts, time, default) ==
    IF thresholds = <<>> THEN default
    ELSE IF time <= Head(thresholds) THEN texts[Head(thresholds)]
    ELSE FirstMatch(Tail(thresholds), texts, time, default)

select_description(loc, time) ==
    FirstMatch(SortedDescending(DOMAIN loc.time_descriptions),
               loc.time_descriptions, time, loc.description)

-----------------------------------------------------------------------------
(* play() and play_conversation() *)

\* no choice applied yet
NoChoice == Choice("", "", <<>>)

\* self.locations.get(...) returned None, or nothing displayed yet
NoLocation == Location("", "", <<>>, <<>>)

\* the largest number of choices any location offers
MaxOffered ==
    LET sizes == {Len(locations[l].choices) : l \in DOMAIN locations}
    IN  CHOOSE n \in sizes : \A m \in sizes : m <= n

SetState(s) ==
    /\ inventory' = s.inventory
    /\ evidence' = s.evidence
    /\ flags' = s.flags
    /\ current_location' = s.current_location
    /\ relationships' = s.relationships
    /\ time_remaining' = s.time_remaining
    /\ stress_level' = s.stress_level
    /\ current_track' = s.current_track

Record(choice) ==
    /\ applied' = applied + 1
    /\ spent' = spent + choice.time_cost
    /\ last' = choice
    /\ repeated' = (applied > 0 /\ last = choice)

Init ==
    /\ inventory = InitState.inventory
    /\ evidence = InitState.evidence
    /\ flags = InitState.flags
    /\ current_location = InitState.current_location
    /\ relationships = InitState.relationships
    /\ time_remaining = InitState.time_remaining
    /\ stress_level = InitState.stress_level
    /\ current_track = InitState.current_track
    /\ pc = "play_top"
    /\ ending = "None"
    /\ location = NoLocation
    /\ description = ""
    /\ offered = <<>>
    /\ applied = 0
    /\ spent = 0
    /\ last = NoChoice
    /\ repeated = FALSE

\* DisplayResult with the break of line 1238 reported as the error of line 1213
DisplayResultDeadlockAsError(locs, s) ==
    IF s.current_location \notin DOMAIN locs THEN "error"
    ELSE IF valid_choices(s, locs[s.current_location]) = <<>> THEN "error"
    ELSE "play_input"

\* how one pass of play() from the top of its loop ends for GameState s over
\* the location table locs: the break of line 1213, the break of line 1238 or
\* the input() of line 1240
DisplayResult(locs, s) ==
    IF s.current_location \notin DOMAIN locs THEN "error"
    ELSE IF valid_choices(s, locs[s.current_location]) = <<>> THEN "deadlocked"
    ELSE "play_input"

\* PlayDisplayIn with a can_make_choice that takes the required items out of
\* the inventory as it tests them
PlayDisplayInConsuming(locs) ==
    /\ pc = "play_top"
    /\ pc' = DisplayResult(locs, state)
    /\ IF current_location \notin DOMAIN locs
       THEN /\ location' = NoLocation
            /\ UNCHANGED <<description, offered, inventory>>
       ELSE /\ location' = locs[current_location]
            /\ description' = select_description(locs[current_location], time_remaining)
            /\ offered' = valid_choices(state, locs[current_location])
            /\ inventory' =
                 IF \E n \in DOMAIN valid_choices(state, locs[current_location]) :
                       valid_choices(state, locs[current_location])[n].required_items # <<>>
                 THEN <<>> ELSE inventory
    /\ UNCHANGED <<evidence, flags, current_location, relationships,
                   time_remaining, stress_level, current_track, ending,
                   applied, spent, last, repeated>>

\* play() over the location table locs, from the top of the loop to its
\* input(): lines 1208-1240
PlayDisplayIn(locs) ==
    /\ pc = "play_top"
    /\ pc' = DisplayResult(locs, state)
    /\ IF current_location \notin DOMAIN locs
       THEN /\ location' = NoLocation
            /\ UNCHANGED <<description, offered>>
       ELSE /\ location' = locs[current_location]
            /\ description' = select_description(locs[current_location], time_remaining)
            /\ offered' = valid_choices(state, locs[current_location])
    /\ UNCHANGED <<inventory, evidence, flags, current_location, relationships,
                   time_remaining, stress_level, current_track, ending,
                   applied, spent, last, repeated>>

PlayDisplay == PlayDisplayIn(locations)

\* PlayRejectInput with the rejected input charged as a turn
PlayRejectInputCharged ==
    /\ pc = "play_input"
    /\ pc' = "play_top"
    /\ time_remaining' = time_remaining - 1
    /\ UNCHANGED <<inventory, evidence, flags, current_location, relationships,
                   stress_level, current_track, ending, location,
                   description, offered, applied, spent, last, repeated>>

\* play(), input() returned something that is not an offered number: lines 1242-1243
PlayRejectInput ==
    /\ pc = "play_input"
    /\ pc' = "play_top"
    /\ UNCHANGED <<inventory, evidence, flags, current_location, relationships,
                   time_remaining, stress_level, current_track, ending, location,
                   description, offered, applied, spent, last, repeated>>

\* play_conversation() over the location table locs, from its entry to its
\* input(): lines 1083-1107.  Gives where the run waits next, the GameState it
\* is left with and the choices it offers; old is what play() last offered.
EnterConversationIn(locs, s, old) ==
    IF s.current_location \notin DOMAIN locs
    THEN [pc |-> "play_top", state |-> s, offered |-> old]
    ELSE IF valid_choices(s, locs[s.current_location]) = <<>>
    THEN [pc |-> "play_top", state |-> [s EXCEPT !.current_location = "main_hall"],
          offered |-> <<>>]
    ELSE [pc |-> "conv_input", state |-> s,
          offered |-> valid_choices(s, locs[s.current_location])]

EnterConversation(s) == EnterConversationIn(locations, s, offered)

\* play() over the location table locs, input() returned the offered number
\* n: lines 1245-1260
PlayChooseIn(locs, n) ==
    /\ pc = "play_input"
    /\ applied < MaxApplied
    /\ n \in DOMAIN offered
    /\ LET chosen_choice == offered[n]
           s1 == [apply_choice_effects(state, chosen_choice)
                    EXCEPT !.current_location = chosen_choice.next_location]
       IN  /\ Record(chosen_choice)
           /\ UNCHANGED <<location, description>>
           /\ IF s1.current_location \in conversation_locations
              THEN /\ SetState(EnterConversationIn(locs, s1, offered).state)
                   /\ pc' = EnterConversationIn(locs, s1, offered).pc
                   /\ offered' = EnterConversationIn(locs, s1, offered).offered
                   /\ UNCHANGED ending
              ELSE /\ SetState(s1)
                   /\ ending' = check_ending_conditions(s1)
                   /\ pc' = IF check_ending_conditions(s1) # "None" THEN "ended"
                            ELSE "play_top"
                   /\ UNCHANGED offered

PlayChoose(n) == PlayChooseIn(locations, n)

\* play_conversation(), input() returned something that is not an offered
\* number: lines 1109-1110, then the `continue` of line 1255
ConversationRejectInput ==
    /\ pc = "conv_input"
    /\ pc' = "play_top"
    /\ UNCHANGED <<inventory, evidence, flags, current_location, relationships,
                   time_remaining, stress_level, current_track, ending, location,
                   description, offered, applied, spent, last, repeated>>

\* ConversationDestination without the test of line 1123
ConversationDestinationUnchecked(locs, outcome) == outcome

\* ConversationDestination with line 1124 taken for every outcome
ConversationDestinationHall(locs, outcome) == "main_hall"

\* where play_conversation() leaves the player for the outcome of the chosen
\* dialogue choice: lines 1122-1126
ConversationDestination(locs, outcome) ==
    IF outcome \notin DOMAIN locs THEN "main_hall" ELSE outcome

\* play_conversation() over the location table locs, input() returned the
\* offered number n: lines 1112-1126, then the `continue` of line 1255
ConversationChooseIn(locs, n) ==
    /\ pc = "conv_input"
    /\ applied < MaxApplied
    /\ n \in DOMAIN offered
    /\ LET chosen_choice == offered[n]
           outcome == chosen_choice.next_location
           s1 == apply_choice_effects(state, chosen_choice)
       IN  /\ Record(chosen_choice)
           /\ SetState([s1 EXCEPT !.current_location =
                          ConversationDestination(locs, outcome)])
           /\ pc' = "play_top"
           /\ UNCHANGED <<ending, location, description, offered>>

ConversationChoose(n) == ConversationChooseIn(locations, n)

Next ==
    \/ PlayDisplay
    \/ PlayRejectInput
    \/ \E n \in 1..MaxOffered : PlayChoose(n)
    \/ ConversationRejectInput
    \/ \E n \in 1..MaxOffered : ConversationChoose(n)

Spec == Init /\ [][Next]_vars

-----------------------------------------------------------------------------
(* play() and play_conversation() over a small location table in which the  *)
(* branches the shipped content never takes are taken: a location none of   *)
(* whose choices is available, a conversation with no available choice, a   *)
(* choice gated on a flag expected False, on an item and on evidence.       *)

\* starting location of __init__: the lockpick can be taken and dropped, the
\* gate flag goes from unset to False to True
FixtureEntrance ==
    Location("mansion_entrance", "entrance",
        <<Choice("take_lockpick", "mansion_entrance", [inventory_add |-> <<"lockpick">>]),
          Choice("drop_lockpick", "mansion_entrance",
                 [required_items |-> <<"lockpick">>, inventory_remove |-> <<"lockpick">>]),
          Choice("pick_lock", "vault", [required_items |-> <<"lockpick">>]),
          Choice("lock_gate", "mansion_entrance",
                 [flags_change |-> ("gate_open" :> FALSE)]),
          Choice("open_gate", "mansion_entrance",
                 [required_flags |-> ("gate_open" :> FALSE),
                  flags_change |-> ("gate_open" :> TRUE)]),
          Choice("enter_cellar", "cellar", [required_flags |-> ("gate_open" :> TRUE)]),
          Choice("talk_elena", "elena_conversation", <<>>),
          Choice("leave", "nowhere", <<>>)>>,
        <<>>)

FixtureVault ==
    Location("vault", "vault",
        <<Choice("take_records", "vault",
                 [evidence_add |-> <<all_evidence["financial_records"]>>,
                  time_cost |-> 12]),
          Choice("accuse", "main_hall",
                 [required_items |-> <<"lockpick">>,
                  required_flags |-> ("gate_open" :> TRUE),
                  required_evidence |-> <<"Financial Records">>]),
          Choice("back", "mansion_entrance", <<>>)>>,
        <<>>)

\* the only choice asks for evidence nothing grants
FixtureCellar ==
    Location("cellar", "cellar",
        <<Choice("dig", "cellar", [required_evidence |-> <<"Treasure Map">>])>>,
        <<>>)

\* one of the conversation ids of play(): both choices are gated, one leads
\* to an outcome that is no location and one to a location
FixtureConversation ==
    Location("elena_conversation", "conversation",
        <<Choice("confide", "elena_reveal",
                 [required_evidence |-> <<"Financial Records">>]),
          Choice("ask_about_vault", "vault",
                 [required_flags |-> ("gate_open" :> TRUE)])>>,
        <<>>)

FixtureHall ==
    Location("main_hall", "hall",
        <<Choice("return", "mansion_entrance", <<>>)>>,
        <<>>)

FixtureLocations ==
    add_locations(<<>>, <<FixtureEntrance, FixtureVault, FixtureCellar,
                          FixtureConversation, FixtureHall>>)

FixtureMaxOffered ==
    LET sizes == {Len(FixtureLocations[l].choices) : l \in DOMAIN FixtureLocations}
    IN  CHOOSE n \in sizes : \A m \in sizes : m <= n

FixtureDisplay == PlayDisplayIn(FixtureLocations)

FixtureChoose(n) == PlayChooseIn(FixtureLocations, n)

FixtureConversationChoose(n) == ConversationChooseIn(FixtureLocations, n)

FixtureNext ==
    \/ FixtureDisplay
    \/ PlayRejectInput
    \/ \E n \in 1..FixtureMaxOffered : FixtureChoose(n)
    \/ ConversationRejectInput
    \/ \E n \in 1..FixtureMaxOffered : FixtureConversationChoose(n)

SpecFixture == Init /\ [][FixtureNext]_vars

-----------------------------------------------------------------------------
(* The engine on its own: apply_choice_effects, check_ending_conditions and *)
(* the description selection applied to choices and locations drawn from    *)
(* small sets instead of the shipped content graph.                         *)

EngineTimeCosts == {0, 6, 12, 24}

EngineStressChanges == {-15, 4, 15}

EngineAddLists ==
    {<<"lockpick">>, <<"lockpick", "secret_passage_map">>, <<"lockpick", "lockpick">>}

EngineRemoveLists == {<<"lockpick">>, <<"secret_passage_map", "secret_passage_map">>}

EngineFlagChanges ==
    {("found_secret_passage" :> TRUE), ("found_secret_passage" :> FALSE),
     ("marcus_ai_connection" :> TRUE)}

EngineEvidenceLists ==
    {<<all_evidence["server_logs"]>>, <<all_evidence["secret_passage_map"]>>,
     <<all_evidence["server_logs"], all_evidence["server_logs"]>>,
     <<all_evidence["financial_records"], all_evidence["system_breach"]>>}

EngineRelationshipChanges ==
    {("ada" :> 4), ("ada" :> -1), ("elena" :> -3), ("gregory" :> 3), ("victoria" :> 4)}

\* every choice sets one field besides its default time_cost, or adds and
\* removes an item at once, or adds an item and evidence at once, or adds
\* evidence and sets a flag at once
EngineChoices ==
    {Choice("c", "hub", [time_cost |-> t]) : t \in EngineTimeCosts}
    \cup {Choice("c", "hub", [stress_change |-> x]) : x \in EngineStressChanges}
    \cup {Choice("c", "hub", [inventory_add |-> l]) : l \in EngineAddLists}
    \cup {Choice("c", "hub", [inventory_remove |-> l]) : l \in EngineRemoveLists}
    \cup {Choice("c", "hub", [inventory_add |-> <<"lockpick">>,
                              inventory_remove |-> <<"lockpick">>])}
    \cup {Choice("c", "hub", [flags_change |-> f]) : f \in EngineFlagChanges}
    \cup {Choice("c", "hub", [evidence_add |-> l]) : l \in EngineEvidenceLists}
    \cup {Choice("c", "hub", [inventory_add |-> <<"lockpick">>,
                              evidence_add |-> <<all_evidence["financial_records"]>>])}
    \cup {Choice("c", "hub", [evidence_add |-> <<all_evidence["server_logs"]>>,
                              flags_change |-> ("found_secret_passage" :> TRUE)])}
    \cup {Choice("c", "hub", [relationship_changes |-> r]) : r \in EngineRelationshipChanges}
    \cup {Choice("c", "hub", [track_change |-> "technical"])}

\* a location with the two thresholds of the shipped locations, and one with none
EngineLocations ==
    {Location("hub", "C", <<>>, (12 :> "A") @@ (6 :> "B")),
     Location("hub", "C", <<>>, <<>>)}

\* the GameState of __init__, outside play()
EngineInit ==
    /\ inventory = InitState.inventory
    /\ evidence = InitState.evidence
    /\ flags = InitState.flags
    /\ current_location = InitState.current_location
    /\ relationships = InitState.relationships
    /\ time_remaining = InitState.time_remaining
    /\ stress_level = InitState.stress_level
    /\ current_track = InitState.current_track
    /\ pc = "engine"
    /\ ending = "None"
    /\ location = NoLocation
    /\ description = ""
    /\ offered = <<>>
    /\ applied = 0
    /\ spent = 0
    /\ last = NoChoice
    /\ repeated = FALSE

\* apply_choice_effects(choice)
EngineApply(choice) ==
    /\ applied < MaxEngineApplied
    /\ Record(choice)
    /\ SetState(apply_choice_effects(state, choice))
    /\ ending' = "None"
    /\ location' = NoLocation
    /\ description' = ""
    /\ UNCHANGED <<pc, offered>>

\* ending = check_ending_conditions()
EngineCheck ==
    /\ ending' = check_ending_conditions(state)
    /\ UNCHANGED <<inventory, evidence, flags, current_location, relationships,
                   time_remaining, stress_level, current_track, pc, location,
                   description, offered, applied, spent, last, repeated>>

\* the description of lines 1218-1222 for location loc
EngineDescribe(loc) ==
    /\ location' = loc
    /\ description' = select_description(loc, time_remaining)
    /\ UNCHANGED <<inventory, evidence, flags, current_location, relationships,
                   time_remaining, stress_level, current_track, pc, ending,
                   offered, applied, spent, last, repeated>>

EngineNext ==
    \/ \E choice \in EngineChoices : EngineApply(choice)
    \/ EngineCheck
    \/ \E loc \in EngineLocations : EngineDescribe(loc)

SpecEngine == EngineInit /\ [][EngineNext]_vars

-----------------------------------------------------------------------------
(* Properties *)

\* C1: after every applied choice, in play() and in play_conversation(),
\* check_ending_conditions is evaluated before a choice is offered again: no
\* choice is offered in a state where it would return an ending.
C1_EndingCheckedBeforeOffer ==
    pc \in {"play_input", "conv_input"} => check_ending_conditions(state) = "None"

\* the rules of the ending resolver in their priority order, each with its
\* condition stated on its own
EndingRules ==
    <<"timeout", "ai_conspiracy", "perfect_crime", "system_breach_ending",
      "personal_tragedy", "marcus_ai_conspiracy">>

RuleCondition(s, rule) ==
    CASE rule = "timeout" -> s.time_remaining <= 0
      [] rule = "ai_conspiracy" ->
            /\ "Server Logs" \in Names(s.evidence)
            /\ FlagIs(s, "found_secret_passage", TRUE)
            /\ s.relationships["ada"] > 3
      [] rule = "perfect_crime" ->
            /\ "Financial Records" \in Names(s.evidence)
            /\ FlagIs(s, "found_secret_passage", TRUE)
            /\ s.relationships["elena"] < -2
      [] rule = "system_breach_ending" ->
            /\ "System Breach" \in Names(s.evidence)
            /\ s.relationships["gregory"] > 2
      [] rule = "personal_tragedy" -> s.stress_level >= 10
      [] rule = "marcus_ai_conspiracy" ->
            /\ FlagIs(s, "marcus_ai_connection", TRUE)
            /\ s.relationships["ada"] < 0

Matching(s) == {i \in DOMAIN EndingRules : RuleCondition(s, EndingRules[i])}

\* C2: check_ending_conditions returns the ending of the earliest rule, in
\* the order timeout, ai_conspiracy, perfect_crime, system_breach_ending,
\* personal_tragedy, marcus_ai_conspiracy, whose condition holds; with
\* time_remaining <= 0 it returns timeout whatever else holds.
C2_EarliestRuleWins ==
    /\ \A i \in Matching(state) :
          (\A j \in Matching(state) : i <= j)
             => check_ending_conditions(state) = EndingRules[i]
    /\ time_remaining <= 0 => check_ending_conditions(state) = "timeout"

\* timeout and ai_conspiracy hold at once and the resolver has been run
C2_Witness ==
    /\ {1, 2} \subseteq Matching(state)
    /\ applied > 0
    /\ ending = "timeout"

\* C3: when rules 1 to 6 do not match, relationships.victoria > 3 and an
\* evidence item named "Secret Passage Map" is collected,
\* check_ending_conditions returns victoria_alliance.
C3_VictoriaAlliance ==
    (/\ Matching(state) = {}
     /\ relationships["victoria"] > 3
     /\ "Secret Passage Map" \in Names(evidence))
        => check_ending_conditions(state) = "victoria_alliance"

\* the thresholds of loc that time has fallen to or below
Qualifying(loc, time) == {t \in DOMAIN loc.time_descriptions : time <= t}

\* a description has been selected for `location` at the present time_remaining
Described ==
    \/ pc = "play_input"
    \/ pc = "engine" /\ location # NoLocation

\* C4: the text of the smallest threshold t with time_remaining <= t is
\* shown, the base text when there is none: with thresholds {12: "A", 6: "B"}
\* and base "C", 20 gives "C", 12 gives "A", 6 gives "B" and 3 gives "B".
C4_TightestThresholdShown ==
    Described =>
        description =
            IF Qualifying(location, time_remaining) = {} THEN location.description
            ELSE location.time_descriptions[
                    CHOOSE t \in Qualifying(location, time_remaining) :
                        \A u \in Qualifying(location, time_remaining) : t <= u]

\* C5: the thresholds are scanned in descending order and the text of the
\* first threshold t with time_remaining <= t is shown, that is the text of
\* the largest such threshold; when no threshold qualifies, or the location
\* has no time descriptions, the base description is shown.
C5_DescendingFirstMatch ==
    Described =>
        description =
            IF Qualifying(location, time_remaining) = {} THEN location.description
            ELSE location.time_descriptions[
                    CHOOSE t \in Qualifying(location, time_remaining) :
                        \A u \in Qualifying(location, time_remaining) : u <= t]

\* both thresholds qualify and the text of the larger one is shown
C5_Witness ==
    /\ Described
    /\ Qualifying(location, time_remaining) = {6, 12}
    /\ description = "A"

\* C6: from the initial state a sequence of available choices collects
\* "Financial Records", sets found_secret_passage and takes confront_elena,
\* after which check_ending_conditions returns perfect_crime.  "Financial
\* Records" is granted only by study.inspect_desk and by
\* desk_inspect.analyze_records behind it, inspect_desk requires the lockpick,
\* and the lockpick is granted only by tool_shed.search_tools and by
\* search_tools_result.take_lockpick behind it: every such sequence takes
\* search_tools in a state where searched_toolshed has never been set.  So
\* the sequence exists only if search_tools is offered there.
C6_ScenarioPathOpen ==
    (/\ pc = "play_input"
     /\ current_location = "tool_shed"
     /\ "searched_toolshed" \notin DOMAIN flags)
        => \E n \in DOMAIN valid_choices(state, location) :
              valid_choices(state, location)[n].id = "search_tools"

\* C7: stress_level is within [0,10] in every reachable state, and
\* apply_choice_effects with any stress_change leaves
\* max(0, min(10, old + stress_change)).
C7_StressClamped ==
    /\ [](stress_level \in 0..10)
    /\ [][\A choice \in EngineChoices :
            EngineApply(choice) =>
                stress_level' =
                    IF stress_level + choice.stress_change < 0 THEN 0
                    ELSE IF stress_level + choice.stress_change > 10 THEN 10
                    ELSE stress_level + choice.stress_change]_vars

\* a stress_change of +15 was cut off at 10
C7_Witness ==
    /\ applied > 0
    /\ last.stress_change = 15
    /\ stress_level = 10

\* C8: after the applied choices, in play() and in conversations,
\* time_remaining is 24 minus the sum of their time_cost, and time_remaining
\* never increases.
C8_TimeSpent ==
    /\ [](time_remaining = InitState.time_remaining - spent)
    /\ [][time_remaining' <= time_remaining]_vars

\* choices applied in play() and then one in a conversation
C8_Witness ==
    /\ applied >= 3
    /\ last.id = "press_elena"
    /\ pc = "play_top"
    /\ time_remaining < 20

\* C9: the collected evidence never holds two entries of the same name.
C9_EvidenceNamesUnique ==
    \A i, j \in DOMAIN evidence : evidence[i].name = evidence[j].name => i = j

\* examine_exterior, which grants "Broken Window", was applied a second time
C9_Witness ==
    /\ last.id = "examine_exterior"
    /\ stress_level >= 2
    /\ Names(evidence) = {"Broken Window"}

\* C10: applying a choice a second time in a row leaves the inventory and
\* the evidence list as they were after the first application.
C10_AddIdempotent ==
    [][\A choice \in EngineChoices :
         (EngineApply(choice) /\ applied > 0 /\ last = choice)
            => (inventory' = inventory /\ evidence' = evidence)]_vars

\* a choice adding the lockpick and "Financial Records" was applied twice
C10_Witness ==
    /\ repeated
    /\ last.inventory_add = <<"lockpick">>
    /\ last.evidence_add # <<>>
    /\ inventory = <<"lockpick">>
    /\ Names(evidence) = {"Financial Records"}

\* the elements of a list
Range(list) == {list[i] : i \in DOMAIN list}

\* every choice of the small location table
FixtureChoices ==
    UNION {Range(FixtureLocations[l].choices) : l \in DOMAIN FixtureLocations}

\* the requirements of a choice, each stated on its own as a relation between
\* what the choice asks for and what the GameState holds
ItemsHeld(s, choice) == Range(choice.required_items) \subseteq Range(s.inventory)

FlagsAsExpected(s, choice) ==
    \A flag \in DOMAIN choice.required_flags :
        \E key \in DOMAIN s.flags :
            key = flag /\ s.flags[key] = choice.required_flags[flag]

EvidenceCollected(s, choice) == Range(choice.required_evidence) \subseteq Names(s.evidence)

Available(s, choice) ==
    /\ ItemsHeld(s, choice)
    /\ FlagsAsExpected(s, choice)
    /\ EvidenceCollected(s, choice)

\* the choice with this id is among the choices offered at the last display
Offers(id) == \E n \in DOMAIN offered : offered[n].id = id

\* C11: can_make_choice is true exactly when every required item is in the
\* inventory, every required flag maps to its expected value and every
\* required evidence name is the name of a collected evidence; a requirement
\* that is absent or empty never makes a choice unavailable.
C11_AvailableIffRequirementsMet ==
    \A choice \in FixtureChoices :
        /\ can_make_choice(state, choice) <=> Available(state, choice)
        /\ (/\ choice.required_items = <<>>
            /\ choice.required_flags = <<>>
            /\ choice.required_evidence = <<>>) => can_make_choice(state, choice)
        /\ (choice.required_items = <<>> /\ choice.required_flags = <<>>)
              => (can_make_choice(state, choice) <=> EvidenceCollected(state, choice))
        /\ (choice.required_flags = <<>> /\ choice.required_evidence = <<>>)
              => (can_make_choice(state, choice) <=> ItemsHeld(state, choice))
        /\ (choice.required_items = <<>> /\ choice.required_evidence = <<>>)
              => (can_make_choice(state, choice) <=> FlagsAsExpected(state, choice))

\* the vault is displayed and offers accuse, which requires an item, a flag
\* and an evidence, next to back, which requires nothing
C11_Witness ==
    /\ pc = "play_input"
    /\ current_location = "vault"
    /\ Offers("accuse")
    /\ Offers("back")
    /\ inventory = <<"lockpick">>
    /\ FlagIs(state, "gate_open", TRUE)
    /\ "Financial Records" \in Names(evidence)

\* C12: a choice that requires a flag to be False is not available while the
\* key is absent from flags and is available, as far as that flag goes, only
\* when the key is present and maps to False; with the key absent the display
\* goes on to its prompt without the choice.
C12_FalseRequirementNeedsKey ==
    \A choice \in FixtureChoices :
        \A flag \in DOMAIN choice.required_flags :
            choice.required_flags[flag] = FALSE =>
                /\ flag \notin DOMAIN flags => ~can_make_choice(state, choice)
                /\ can_make_choice(state, choice)
                      => (flag \in DOMAIN flags /\ flags[flag] = FALSE)
                /\ (/\ pc = "play_input"
                    /\ choice \in Range(location.choices)
                    /\ flag \notin DOMAIN flags) => choice \notin Range(offered)

\* gate_open has been set to False and open_gate, which requires it False,
\* is offered
C12_Witness ==
    /\ pc = "play_input"
    /\ current_location = "mansion_entrance"
    /\ last.id = "lock_gate"
    /\ flags = ("gate_open" :> FALSE)
    /\ Offers("open_gate")

\* C13: pick_lock, whose only requirement is required_items ["lockpick"], is
\* not offered while the inventory is empty, is offered at the display that
\* follows take_lockpick (inventory_add ["lockpick"]), also when take_lockpick
\* was applied twice in a row, and the inventory then holds one lockpick.
C13_LockpickGate ==
    (pc = "play_input" /\ current_location = "mansion_entrance") =>
        /\ inventory = <<>> => ~Offers("pick_lock")
        /\ last.id = "take_lockpick" =>
              /\ Offers("pick_lock")
              /\ Cardinality({i \in DOMAIN inventory : inventory[i] = "lockpick"}) = 1

\* take_lockpick was applied twice in a row and pick_lock is offered
C13_Witness ==
    /\ pc = "play_input"
    /\ current_location = "mansion_entrance"
    /\ repeated
    /\ last.id = "take_lockpick"
    /\ last.inventory_add = <<"lockpick">>
    /\ Offers("pick_lock")
    /\ inventory = <<"lockpick">>

\* C14: an input that is not an offered number, in play() and in
\* play_conversation(), changes no field of the GameState, and the next
\* display prompts for the same location with the same choices.
C14_RejectKeepsState ==
    [][(PlayRejectInput \/ ConversationRejectInput) =>
          /\ state' = state
          /\ pc' = "play_top"
          /\ DisplayResult(locations, state') = "play_input"
          /\ valid_choices(state', locations[current_location']) = offered]_vars

\* an input was rejected inside elena_conversation: only there does the loop
\* of play() start over with a conversation id as current_location
C14_Witness ==
    /\ pc = "play_top"
    /\ current_location = "elena_conversation"
    /\ last.id = "talk_elena"
    /\ offered = locations["elena_conversation"].choices

\* C15: whenever the destination of an applied choice is not a defined
\* location id, the run stops with the fatal error and the destination is
\* never replaced by another location, in play() and in play_conversation():
\* from such a choice on, current_location is that destination and the run
\* is at the top of the loop, about to stop, or stopped.
C15_UnknownDestinationFatal ==
    (applied > 0 /\ last.next_location \notin DOMAIN locations) =>
        /\ current_location = last.next_location
        /\ pc \in {"play_top", "error", "ended"}

\* C15, amended: a choice applied in play() whose destination is not a
\* defined location id leaves current_location at that id, and unless an
\* ending is reported first the next pass of the loop stops the run with the
\* fatal error, changing nothing; a choice applied in play_conversation()
\* whose destination is not a defined location id leaves the player in
\* main_hall and the run goes on.
C15_FatalInPlayOnly ==
    /\ [][\A n \in 1..MaxOffered :
            (PlayChoose(n) /\ offered[n].next_location \notin DOMAIN locations)
               => /\ current_location' = offered[n].next_location
                  /\ pc' \in {"play_top", "ended"}]_vars
    /\ [][(pc = "play_top" /\ current_location \notin DOMAIN locations)
            => (pc' = "error" /\ state' = state)]_vars
    /\ [][pc # "error"]_vars
    /\ [][\A n \in 1..MaxOffered :
            (ConversationChoose(n) /\ offered[n].next_location \notin DOMAIN locations)
               => /\ current_location' = "main_hall"
                  /\ pc' = "play_top"]_vars

\* press_elena, whose destination elena_reveal is no location, was applied in
\* the conversation and the run is back at the top of the loop in main_hall
C15_Witness ==
    /\ pc = "play_top"
    /\ last.id = "press_elena"
    /\ last.next_location = "elena_reveal"
    /\ "elena_reveal" \notin DOMAIN locations
    /\ current_location = "main_hall"

\* C16: with the shipped content every destination that is not a location
\* with choices leads back to main_hall: whenever a choice is about to be
\* offered current_location is a defined location, and no run stops with the
\* unknown-location error.
C16_OutcomeNodesResolve ==
    /\ pc \in {"play_top", "play_input", "conv_input"}
          => current_location \in DOMAIN locations
    /\ pc # "error"

C18_DeadlockedOutcome ==
    /\ [][(/\ pc = "play_top"
           /\ current_location \in DOMAIN FixtureLocations
           /\ \A choice \in Range(FixtureLocations[current_location].choices) :
                 ~Available(state, choice))
            => /\ pc' = "deadlocked"
               /\ state' = state
               /\ ending' = ending]_vars
    /\ [](pc = "deadlocked" =>
            /\ ending = "None"
            /\ current_location \in DOMAIN FixtureLocations
            /\ offered = <<>>)
    /\ [][pc # "deadlocked"]_vars

\* the run stopped in the cellar, whose only choice asks for evidence that
\* nothing grants
C18_Witness ==
    /\ pc = "deadlocked"
    /\ current_location = "cellar"
    /\ last.id = "enter_cellar"
    /\ location = FixtureCellar

\* C19: the choices offered at a display, in play() and in
\* play_conversation(), are the choices of the current location whose
\* requirements are met in the state of that display, in their order, and
\* every applied choice was one of the offered choices and had its
\* requirements met in the state its effects were applied to.
C19_OfferedExactlyAvailable ==
    /\ [](pc \in {"play_input", "conv_input"} =>
            /\ current_location \in DOMAIN FixtureLocations
            /\ offered = SelectSeq(FixtureLocations[current_location].choices,
                                   LAMBDA choice : Available(state, choice)))
    /\ [][applied' = applied + 1 =>
            /\ last' \in Range(offered)
            /\ last' \in Range(FixtureLocations[current_location].choices)
            /\ Available(state, last')]_vars

\* the entrance is displayed again after drop_lockpick, which itself required
\* the lockpick: pick_lock and drop_lockpick, offered at the display before,
\* are not offered now
C19_Witness ==
    /\ pc = "play_input"
    /\ current_location = "mansion_entrance"
    /\ last.id = "drop_lockpick"
    /\ inventory = <<>>
    /\ ~Offers("pick_lock")
    /\ ~Offers("drop_lockpick")
    /\ Offers("take_lockpick")

C21_OnlyNamedFieldsChange ==
    [][\A choice \in EngineChoices :
         EngineApply(choice) =>
            /\ \A flag \in DOMAIN flags \ DOMAIN choice.flags_change :
                  flag \in DOMAIN flags' /\ flags'[flag] = flags[flag]
            /\ DOMAIN flags' = DOMAIN flags \cup DOMAIN choice.flags_change
            /\ DOMAIN relationships' = DOMAIN relationships
            /\ \A c \in DOMAIN relationships \ DOMAIN choice.relationship_changes :
                  relationships'[c] = relationships[c]
            /\ choice.track_change = "" => current_track' = current_track
            /\ (choice.inventory_add = <<>> /\ choice.inventory_remove = <<>>)
                  => inventory' = inventory
            /\ choice.evidence_add = <<>> => evidence' = evidence
            /\ current_location' = current_location]_vars

\* with found_secret_passage set to False and the lockpick held, a choice
\* that only sets marcus_ai_connection was applied
C21_Witness ==
    /\ applied = 3
    /\ last.flags_change = ("marcus_ai_connection" :> TRUE)
    /\ flags = ("found_secret_passage" :> FALSE) @@ ("marcus_ai_connection" :> TRUE)
    /\ inventory = <<"lockpick">>
    /\ current_location = InitState.current_location

\* the five characters __init__ gives a relationship value
Characters == {"elena", "james", "victoria", "gregory", "ada"}

\* every choice of the shipped content
ShippedChoices == UNION {Range(locations[l].choices) : l \in DOMAIN locations}

\* C22: the key set of relationships is {elena, james, victoria, gregory,
\* ada} in every reachable state and every relationship_changes key of every
\* shipped choice is one of the five, so that the `+=` of line 1077 finds its
\* key for every choice of the content graph.
C22_RelationshipKeysFixed ==
    /\ DOMAIN relationships = Characters
    /\ \A choice \in ShippedChoices :
          /\ DOMAIN choice.relationship_changes \subseteq Characters
          /\ DOMAIN choice.relationship_changes \subseteq DOMAIN relationships

\* a choice changing gregory's relationship has been applied
C22_Witness ==
    /\ last.id = "talk_gregory_sec"
    /\ "gregory" \in DOMAIN last.relationship_changes
    /\ relationships["gregory"] # 0
    /\ DOMAIN relationships = Characters

C24_RemovedItemsGone ==
    [][\A choice \in EngineChoices :
         EngineApply(choice) =>
            /\ \A x \in Range(choice.inventory_remove) : x \notin Range(inventory')
            /\ (/\ choice.inventory_add = <<>>
                /\ Range(choice.inventory_remove) \cap Range(inventory) = {})
                  => inventory' = inventory]_vars

\* the choice that lists the lockpick in inventory_add and in
\* inventory_remove was applied with the secret_passage_map held: the map is
\* kept and the lockpick is not held
C24_Witness ==
    /\ applied >= 2
    /\ last.inventory_add = <<"lockpick">>
    /\ last.inventory_remove = <<"lockpick">>
    /\ inventory = <<"secret_passage_map">>

\* C25: apply_choice_effects adds each delta of relationship_changes to the
\* relationship of its character as it is, with no clamping: the new value
\* is the old value plus the delta, whatever the result.
C25_RelationshipsUnclamped ==
    [][\A choice \in EngineChoices :
         EngineApply(choice) =>
            \A c \in DOMAIN choice.relationship_changes :
                relationships'[c] = relationships[c] + choice.relationship_changes[c]]_vars

\* a delta of +4 for ada was applied three times: 12, above the ceiling of 10
\* that the stress level has
C25_Witness ==
    /\ applied = 3
    /\ last.relationship_changes = ("ada" :> 4)
    /\ relationships["ada"] = 12
    /\ stress_level <= 10

\* C26: every playthrough of the shipped content reaches a terminal outcome
\* after finitely many applied choices, the clock being what ends it:
\* time_remaining does not keep decreasing below 0 while the game goes on,
\* so no choice is asked for with time_remaining below 0.
C26_NoPromptBelowZero ==
    pc \in {"play_input", "conv_input"} => time_remaining >= 0

\* C27: with the shipped content check_ending_conditions returns, in every
\* reachable state, None, timeout, system_breach_ending or personal_tragedy,
\* never ai_conspiracy, perfect_crime, marcus_ai_conspiracy or
\* victoria_alliance; so does the ending play() reports.
C27_ReachableEndings ==
    /\ check_ending_conditions(state)
          \in {"None", "timeout", "system_breach_ending", "personal_tragedy"}
    /\ check_ending_conditions(state)
          \notin {"ai_conspiracy", "perfect_crime", "marcus_ai_conspiracy",
                  "victoria_alliance"}
    /\ ending \in {"None", "timeout", "system_breach_ending", "personal_tragedy"}

\* a run was ended by check_ending_conditions with the Server Logs collected
\* and found_secret_passage set, two of the three conditions of ai_conspiracy
C27_Witness ==
    /\ pc = "ended"
    /\ ending = "timeout"
    /\ "Server Logs" \in Names(evidence)
    /\ FlagIs(state, "found_secret_passage", TRUE)

\* the shipped choices that require some flag to be False
FalseGated ==
    {choice \in ShippedChoices :
        \E flag \in DOMAIN choice.required_flags : choice.required_flags[flag] = FALSE}

\* C28: with the shipped content the five choices gated on a flag being
\* False (search_tools, search_books, inspect_desk, check_surveillance,
\* search_compartments) are available in no reachable state: flags starts
\* empty, no shipped choice writes False to a flag, and no flag is ever False.
C28_FalseGatedNeverAvailable ==
    /\ {choice.id : choice \in FalseGated} =
          {"search_tools", "search_books", "inspect_desk", "check_surveillance",
           "search_compartments"}
    /\ \A choice \in FalseGated :
          /\ ~can_make_choice(state, choice)
          /\ choice \notin Range(offered)
    /\ \A choice \in ShippedChoices :
          \A flag \in DOMAIN choice.flags_change : choice.flags_change[flag] = TRUE
    /\ \A flag \in DOMAIN flags : flags[flag] = TRUE

\* the tool shed is displayed and search_tools, one of its choices, is not
\* among the offered choices
C28_Witness ==
    /\ pc = "play_input"
    /\ current_location = "tool_shed"
    /\ "searched_toolshed" \notin DOMAIN flags
    /\ \E i \in DOMAIN location.choices : location.choices[i].id = "search_tools"
    /\ ~Offers("search_tools")
    /\ Offers("leave_shed")

\* C29: with the shipped content the inventory is empty in every reachable
\* state: no offered choice carries an inventory_add, the lockpick is never
\* held, and every applied choice has a time_cost of at least 1.
C29_InventoryAlwaysEmpty ==
    /\ [](inventory = <<>>)
    /\ [](pc \in {"play_input", "conv_input"} =>
            \A choice \in Range(offered) :
                choice.inventory_add = <<>> /\ choice.time_cost >= 1)
    /\ [][applied' = applied + 1 =>
            /\ last'.inventory_add = <<>>
            /\ last'.time_cost >= 1
            /\ time_remaining' < time_remaining]_vars

\* the study is displayed with the inventory empty: inspect_desk, which
\* requires the lockpick, is one of its choices and is not offered
C29_Witness ==
    /\ pc = "play_input"
    /\ current_location = "study"
    /\ inventory = <<>>
    /\ \E i \in DOMAIN location.choices :
          location.choices[i].required_items = <<"lockpick">>
    /\ ~Offers("inspect_desk")
    /\ applied >= 2

\* C30: with the shipped content every reachable state whose
\* current_location is a defined location has a choice available there: the
\* main loop never stops as deadlocked and play_conversation() never takes
\* its branch for no valid choice, because every shipped location has a
\* choice with no requirement at all.
C30_NeverDeadlocked ==
    /\ \A id \in DOMAIN locations :
          \E choice \in Range(locations[id].choices) :
              /\ choice.required_items = <<>>
              /\ choice.required_flags = <<>>
              /\ choice.required_evidence = <<>>
    /\ [](current_location \in DOMAIN locations =>
            /\ \E choice \in Range(locations[current_location].choices) :
                  Available(state, choice)
            /\ valid_choices(state, locations[current_location]) # <<>>)
    /\ [](pc # "deadlocked")
    /\ [](pc \in {"play_input", "conv_input"} => offered # <<>>)
    /\ [][\A n \in 1..MaxOffered :
            (PlayChoose(n) /\ offered[n].next_location \in conversation_locations)
               => pc' = "conv_input"]_vars

\* hidden_room is displayed before found_secret_passage is set: its two
\* gated choices are not offered and exit_hidden_room is
C30_Witness ==
    /\ pc = "play_input"
    /\ current_location = "hidden_room"
    /\ "found_secret_passage" \notin DOMAIN flags
    /\ ~Offers("investigate_terminal")
    /\ ~Offers("search_room")
    /\ Offers("exit_hidden_room")

\* C31: the location reached by press_elena, james_reveal, ask_about_ai or
\* discuss_family at a conversation location is the same whether the choice
\* is taken at once in play_conversation() or after one rejected input there:
\* every step that applies one of them leaves current_location where the
\* direct step leaves it (lines 1122-1126) and the run at the top of the loop.
C31_SameOutcomeAfterRejectedInput ==
    [][(/\ applied' = applied + 1
        /\ current_location \in conversation_locations
        /\ last'.id \in {"press_elena", "james_reveal", "ask_about_ai", "discuss_family"})
          => /\ current_location' = ConversationDestination(locations, last'.next_location)
             /\ pc' = "play_top"]_vars

\* C32: with the shipped content flags only grow: no shipped choice writes
\* False to a flag, every key present in flags maps to True in every
\* reachable state, and across every step each key of flags stays a key and
\* stays True.
C32_FlagsMonotone ==
    /\ \A choice \in ShippedChoices :
          \A flag \in DOMAIN choice.flags_change : choice.flags_change[flag] = TRUE
    /\ [](\A flag \in DOMAIN flags : flags[flag] = TRUE)
    /\ [][\A flag \in DOMAIN flags :
            flag \in DOMAIN flags' /\ flags'[flag] = TRUE]_vars

\* formal_entry, set by front_door, is still True after talk_elena, which
\* writes no flag, and press_elena, which has just set elena_revealed
C32_Witness ==
    /\ last.id = "press_elena"
    /\ applied = 3
    /\ DOMAIN last.flags_change = {"elena_revealed"}
    /\ DOMAIN flags = {"formal_entry", "elena_revealed"}
    /\ flags["formal_entry"] /\ flags["elena_revealed"]

\* C33: collected evidence is never lost: across every step the evidence
\* list before the step is a prefix of the evidence list after it, so every
\* evidence name collected before the step is collected after it, and a step
\* that applies a choice adds exactly the names of its evidence_add.
C33_EvidenceNeverLost ==
    /\ [][/\ Len(evidence) <= Len(evidence')
          /\ SubSeq(evidence', 1, Len(evidence)) = evidence
          /\ Names(evidence) \subseteq Names(evidence')]_vars
    /\ [][\A choice \in EngineChoices :
            EngineApply(choice) =>
               Names(evidence') = Names(evidence) \cup Names(choice.evidence_add)]_vars

\* the list holds two pieces of evidence and the third applied choice added
\* evidence whose name was already that of the first: it was not added again
C33_Witness ==
    /\ applied = 3
    /\ Len(evidence) = 2
    /\ last.evidence_add # <<>>
    /\ Names(last.evidence_add) \subseteq {evidence[1].name}

=============================================================================
